---- MODULE Spec2Model ----
(***************************************************************************)
(* The scan orchestrator of ml-service (src/core/scan_orchestrator.py)     *)
(* with the stage and spectrometer devices it drives.                      *)
(*                                                                         *)
(* start_scan is an asyncio coroutine.  It gives up the event loop only at *)
(* its two asyncio.sleep calls (the pause wait and the settling delay);    *)
(* between them it runs without interleaving.  `running` names the         *)
(* coroutine that holds the event loop, and pc[t] the place where the      *)
(* start_scan call of caller t stands.  pause_scan, resume_scan and        *)
(* cancel_scan hold no await and are single steps.                         *)
(*                                                                         *)
(* Lengths are whole millimetres, times whole milliseconds.                *)
(***************************************************************************)
EXTENDS Integers, Sequences, FiniteSets, TLC

\* ------------------------------------------------------------------ bounds
MaxCoord == 3        \* scan corners are drawn from 0..MaxCoord
MaxBatch == 2        \* batch_size is drawn from 1..MaxBatch
MaxFaults == 2       \* transient device / inference faults per behaviour
MaxScans == 2        \* accepted start_scan calls per behaviour
MaxTotal == 45       \* total_points of the scans whose progress is counted
MaxCallbacks == 2    \* registrations in progress_callbacks
MantissaBits == 3    \* significant bits of a floating-point number

\* The stage travel of the orchestrator under test (StageConfig.x_max_mm,
\* y_max_mm are constructor arguments); one less than MaxCoord so that some
\* requested ranges fall outside the travel.
StageXMax == MaxCoord - 1
StageYMax == MaxCoord - 1

\* -------------------------------------------------------- program constants
IntegrationTimeMin == 1          \* SpectrometerConfig.integration_time_min
IntegrationTimeMax == 10000      \* SpectrometerConfig.integration_time_max
DefaultIntegrationTime == 100    \* ScanParameters.integration_time default

\* The callers that may have a start_scan call in flight.
Tasks == {"A", "B"}
NoTask == "none"

\* ScanStatus
IDLE == "idle"
RUNNING == "running"
PAUSED == "paused"
COMPLETED == "completed"
ERROR == "error"
CANCELLED == "cancelled"
ScanStatus == {IDLE, RUNNING, PAUSED, COMPLETED, ERROR, CANCELLED}

\* Optional values: None for an optional number, NaN for the grid's missing
\* sentinel, NoError for error = None.
None == -1
NaN == -2
NoError == ""
NoStatus == "none"

\* ------------------------------------------------------------ pure helpers
\* np.arange(start, end, step): the end value is left out.
ArangeExclusive(start, end, step) ==
    [i \in 1..((end - start + step - 1) \div step) |-> start + (i - 1) * step]

\* Floating point: the result of an operation on the coordinates is the
\* number of MantissaBits significant bits nearest to the exact result, ties
\* to the even mantissa (numpy works with 53 bits).  Whole numbers below
\* 2^MantissaBits, the coordinates of all but one specification, are exact.
Round(v) ==
    IF v < 2^MantissaBits THEN v
    ELSE LET e == CHOOSE k \in 1..v : v < 2^(MantissaBits + k) /\ v >= 2^(MantissaBits + k - 1)
             q == 2^e
             m == v \div q
             r == v - m * q
         IN IF 2 * r < q THEN m * q
            ELSE IF 2 * r > q THEN (m + 1) * q
            ELSE IF m % 2 = 0 THEN m * q ELSE (m + 1) * q

\* np.arange(start, end + 1e-9, step) for whole numbers start >= 0 and
\* step > 0.  The length is ceil((end + 1e-9 - start) / step), that is
\* floor((end - start) / step) + 1: the 1e-9 is far above the rounding of that
\* quotient.  The values are filled in as numpy does: the first is start, the
\* second start + step, the others start + i * delta with delta the
\* difference of the first two.
Arange(start, end, step) ==
    LET second == Round(start + step)
        delta == Round(second - start)
    IN [i \in 1..(((end - start) \div step) + 1) |->
           IF i = 1 THEN start
           ELSE IF i = 2 THEN second
           ELSE Round(start + Round((i - 1) * delta))]

Reverse(s) == [i \in 1..Len(s) |-> s[Len(s) + 1 - i]]

\* np.full((ny, nx), np.nan): rows 0..ny-1, columns 0..nx-1
EmptyGrid(ny, nx) == [r \in 0..(ny - 1) |-> [c \in 0..(nx - 1) |-> NaN]]

\* grid[yi, col] is a valid numpy index (no negative indices arise)
InGrid(g, yi, col) == yi \in DOMAIN g /\ col \in DOMAIN g[yi]

GridSet(g, yi, col, v) == [g EXCEPT ![yi][col] = v]

\* The spectrum the spectrometer reads is that of the sample under the stage:
\* it is named by the stage position at the time of the read.
\* InferenceEngine.predict maps it to a purity; positions get distinct scores.
Purity(spectrum) == 10 * (spectrum[2] + 1) + spectrum[1]
Confidence(spectrum) == 1

\* --------------------------------------------------------- scan parameters
ScanParameters ==
    [x_start : 0..1, x_end : 1..MaxCoord, step_x : {1},
     y_start : {0}, y_end : 0..1, step_y : 1..2,
     integration_time : {DefaultIntegrationTime},
     overlap_percent : {0},
     serpentine : BOOLEAN,
     batch_size : 1..MaxBatch]

\* A validation whose range checks let an empty range (start = end) pass.
ValidateAllowingEmptyRange(params, limits) ==
    IF params.x_start > params.x_end THEN "x_start must be less than x_end"
    ELSE IF params.y_start > params.y_end THEN "y_start must be less than y_end"
    ELSE IF params.step_x <= 0 \/ params.step_y <= 0 THEN "Step sizes must be positive"
    ELSE IF params.integration_time <= 0 THEN "Integration time must be positive"
    ELSE IF ~(0 <= params.overlap_percent /\ params.overlap_percent <= 100)
        THEN "Overlap percent must be between 0 and 100"
    ELSE IF ~(/\ limits.x[1] <= params.x_start /\ params.x_start <= limits.x[2]
              /\ limits.x[1] <= params.x_end /\ params.x_end <= limits.x[2])
        THEN "X range outside stage limits"
    ELSE IF ~(/\ limits.y[1] <= params.y_start /\ params.y_start <= limits.y[2]
              /\ limits.y[1] <= params.y_end /\ params.y_end <= limits.y[2])
        THEN "Y range outside stage limits"
    ELSE NoError

\* ScanOrchestrator._validate_scan_parameters: the message of the ValueError
\* raised, NoError when the parameters pass.  limits = stage.get_limits().
ValidateScanParameters(params, limits) ==
    IF params.x_start >= params.x_end THEN "x_start must be less than x_end"
    ELSE IF params.y_start >= params.y_end THEN "y_start must be less than y_end"
    ELSE IF params.step_x <= 0 \/ params.step_y <= 0 THEN "Step sizes must be positive"
    ELSE IF params.integration_time <= 0 THEN "Integration time must be positive"
    ELSE IF ~(0 <= params.overlap_percent /\ params.overlap_percent <= 100)
        THEN "Overlap percent must be between 0 and 100"
    ELSE IF ~(/\ limits.x[1] <= params.x_start /\ params.x_start <= limits.x[2]
              /\ limits.x[1] <= params.x_end /\ params.x_end <= limits.x[2])
        THEN "X range outside stage limits"
    ELSE IF ~(/\ limits.y[1] <= params.y_start /\ params.y_start <= limits.y[2]
              /\ limits.y[1] <= params.y_end /\ params.y_end <= limits.y[2])
        THEN "Y range outside stage limits"
    ELSE NoError

\* ------------------------------------------------------------------- state
VARIABLES
    status,            \* ScanOrchestrator.status
    cancel_requested,  \* ScanOrchestrator.cancel_requested
    pause_requested,   \* ScanOrchestrator.pause_requested
    current_scan,      \* ScanOrchestrator.current_scan: <<>> is None, else <<ScanResult>>
    stage,             \* StageController: is_connected, is_homed, emergency_stop, x, y
    spectrometer,      \* SpectrometerController: is_connected, integration_time
    task,              \* per caller: the place and the locals of its start_scan call
    running,           \* the coroutine that holds the event loop, or NoTask
    ret,               \* per caller: how its last start_scan call ended
    budget,            \* transient faults the devices and the inference service may still have
    scans,             \* start_scan calls accepted so far
    progress_callbacks, \* ScanOrchestrator.progress_callbacks, in list order
    calls,             \* the callbacks the last _notify_progress called, in order
    report             \* the dict the last get_scan_status call returned

vars == <<status, cancel_requested, pause_requested, current_scan, stage,
          spectrometer, task, running, ret, budget, scans, progress_callbacks, calls,
          report>>

\* No get_scan_status call has returned yet.
NoReport == [status |-> NoStatus]

\* The locals of a start_scan call that has not started.
IdleTask ==
    [pc |-> "idle", x_positions |-> <<>>, y_positions |-> <<>>, nx |-> 0, ny |-> 0,
     batch_size |-> 0, batch_points |-> <<>>, yi |-> 0, xi |-> 0, x_iter |-> <<>>,
     col |-> 0, exc |-> NoError,
     \* parameters.serpentine of the call (the argument of start_scan)
     serpentine |-> FALSE,
     \* history of this call, read by the properties only: the cells moved
     \* to, the failed calls, the spectra passed to inference_engine.predict
     \* and whether cancel_scan was accepted while the call was in flight
     visited |-> <<>>, fails |-> <<>>, predicts |-> <<>>, cancelled |-> FALSE]

NoRet == [kind |-> "none", msg |-> NoError, status |-> IDLE]

\* The current ScanResult (self.current_scan, when it is not None).
Cur == current_scan[1]

\* ScanOrchestrator.__init__ on a stage of travel [0, x_max] x [0, y_max], with
\* the devices in any state get_scan_orchestrator may leave them in (connect
\* and home may have failed).
InitWithTravel(x_max, y_max) ==
    /\ status = IDLE
    /\ cancel_requested = FALSE
    /\ pause_requested = FALSE
    /\ current_scan = <<>>
    /\ \E c \in BOOLEAN, h \in BOOLEAN :
          /\ h => c
          /\ stage = [is_connected |-> c, is_homed |-> h, emergency_stop |-> FALSE,
                      x |-> 0, y |-> 0, x_max_mm |-> x_max, y_max_mm |-> y_max]
    /\ \E c \in BOOLEAN :
          spectrometer = [is_connected |-> c, integration_time |-> DefaultIntegrationTime]
    /\ task = [t \in Tasks |-> IdleTask]
    /\ running = NoTask
    /\ ret = [t \in Tasks |-> NoRet]
    /\ scans = 0
    /\ progress_callbacks = <<>>
    /\ calls = <<>>
    /\ report = NoReport

InitOrchestrator == InitWithTravel(StageXMax, StageYMax)

Init == InitOrchestrator /\ budget = MaxFaults

\* --------------------------------------------------------------- devices
\* StageController.get_limits
GetLimits == [x |-> <<0, stage.x_max_mm>>, y |-> <<0, stage.y_max_mm>>]

\* A move_abs without the emergency stop test.
MoveAbsIgnoringStop(st, x_mm, y_mm) ==
    IF ~st.is_connected THEN "Stage not connected"
    ELSE IF ~st.is_homed THEN "Stage not homed - call home() first"
    ELSE IF ~(0 <= x_mm /\ x_mm <= st.x_max_mm) THEN "X position outside bounds"
    ELSE IF ~(0 <= y_mm /\ y_mm <= st.y_max_mm) THEN "Y position outside bounds"
    ELSE NoError

\* StageController.move_abs: the message of the exception it raises for the
\* stage state st and the target, NoError when the move is carried out.
MoveAbsError(st, x_mm, y_mm) ==
    IF ~st.is_connected THEN "Stage not connected"
    ELSE IF ~st.is_homed THEN "Stage not homed - call home() first"
    ELSE IF st.emergency_stop THEN "Emergency stop active"
    ELSE IF ~(0 <= x_mm /\ x_mm <= st.x_max_mm) THEN "X position outside bounds"
    ELSE IF ~(0 <= y_mm /\ y_mm <= st.y_max_mm) THEN "Y position outside bounds"
    ELSE NoError

\* SpectrometerController.read_spectrum / set_integration_time: the message of
\* the exception raised, NoError when the call succeeds.
IntegrationTimeError(integration_time) ==
    IF ~(IntegrationTimeMin <= integration_time /\ integration_time <= IntegrationTimeMax)
    THEN "Integration time must be between the limits" ELSE NoError

ReadSpectrumError(sp, integration_time) ==
    IF ~sp.is_connected THEN "Spectrometer not connected"
    ELSE IntegrationTimeError(integration_time)

\* A device driver or the inference service may fail on any call, while the
\* budget of such faults lasts.
TransientFault == "device fault"
FaultChoice == IF budget > 0 THEN BOOLEAN ELSE {FALSE}
IndexErrorMsg == "index is out of bounds"
PredictErrorMsg == "Prediction error"

\* ------------------------------------------------------------- start_scan
\* time.time(): a scan starts at StartTime, and a later reading of the clock
\* is greater than the readings the ScanResult holds.
StartTime == 0
Later(ts) == ts + 1
LastTime(cs) == IF cs.end_time = None THEN cs.start_time ELSE cs.end_time

\* The ScanResult start_scan creates (lines 142-152).
NewScanResult(params, now) ==
    LET xs == Arange(params.x_start, params.x_end, params.step_x)
        ys == Arange(params.y_start, params.y_end, params.step_y)
    IN [parameters |-> params,
        grid |-> EmptyGrid(Len(ys), Len(xs)),
        x_positions |-> xs,
        y_positions |-> ys,
        points |-> <<>>,
        status |-> RUNNING,
        start_time |-> now,
        end_time |-> None,
        total_points |-> Len(xs) * Len(ys),
        completed_points |-> 0,
        error_message |-> NoError,
        \* what the progress callbacks were given of this result: the number
        \* of throttled notifications, and its status at the last notification
        notified |-> 0,
        observed |-> NoStatus]

SetTask(t, rec) == task' = [task EXCEPT ![t] = rec]

\* A status check that also lets a paused orchestrator start a scan.
CanStartOrPaused(st) == st \in {IDLE, PAUSED}

\* `if self.status != ScanStatus.IDLE: raise RuntimeError` (line 124)
CanStart(st) == st = IDLE

\* A raise that first clears the two request flags.
RaiseAfterReset(t, kind, msg) ==
    /\ ret' = [ret EXCEPT ![t] = [kind |-> kind, msg |-> msg, status |-> IDLE]]
    /\ SetTask(t, IdleTask)
    /\ cancel_requested' = FALSE
    /\ pause_requested' = FALSE
    /\ UNCHANGED <<status, current_scan, stage, spectrometer, running, budget, scans>>

\* `raise RuntimeError(...)` (line 125) and the ValueError that leaves
\* _validate_scan_parameters (line 128): the call ends before it has assigned
\* anything.
Raise(t, kind, msg) ==
    /\ ret' = [ret EXCEPT ![t] = [kind |-> kind, msg |-> msg, status |-> IDLE]]
    /\ SetTask(t, IdleTask)
    /\ UNCHANGED <<status, cancel_requested, pause_requested, current_scan,
                   stage, spectrometer, running, budget, scans>>

\* start_scan, lines 124-156, up to the try block: the status check, the
\* validation, the grid, the new ScanResult and the reset of the flags.
StartScanCall(t, params) ==
    /\ running = NoTask
    /\ task[t].pc \in {"idle", "done"}
    /\ IF ~CanStart(status)
       THEN Raise(t, "RuntimeError", "Cannot start scan")
       ELSE IF ValidateScanParameters(params, GetLimits) # NoError
       THEN Raise(t, "ValueError", ValidateScanParameters(params, GetLimits))
       ELSE /\ scans < MaxScans
            /\ current_scan' = <<NewScanResult(params, StartTime)>>
            /\ status' = RUNNING
            /\ cancel_requested' = FALSE
            /\ pause_requested' = FALSE
            /\ SetTask(t, [IdleTask EXCEPT
                             !.pc = "prepare",
                             !.serpentine = params.serpentine,
                             !.x_positions = Arange(params.x_start, params.x_end, params.step_x),
                             !.y_positions = Arange(params.y_start, params.y_end, params.step_y)])
            /\ running' = t
            /\ ret' = [ret EXCEPT ![t] = NoRet]
            /\ scans' = scans + 1
            /\ UNCHANGED <<stage, spectrometer, budget>>
    /\ UNCHANGED <<progress_callbacks, calls, report>>

StartScan(t, inputs) == \E params \in inputs : StartScanCall(t, params)

\* _prepare_hardware (lines 231-247) and the head of _execute_scan (251-255).
\* StageController.home needs only the connection, which is checked first.
PrepareHardware(t) ==
    /\ running = t
    /\ task[t].pc = "prepare"
    /\ LET it == Cur.parameters.integration_time
           homed == [stage EXCEPT !.is_homed = TRUE, !.x = 0, !.y = 0]
           fail(msg) == SetTask(t, [task[t] EXCEPT !.pc = "error", !.exc = msg])
       IN IF ~stage.is_connected
          THEN fail("Stage not connected") /\ UNCHANGED <<stage, spectrometer>>
          ELSE /\ stage' = IF stage.is_homed THEN stage ELSE homed
               /\ IF ~spectrometer.is_connected
                  THEN fail("Spectrometer not connected") /\ UNCHANGED spectrometer
                  ELSE IF IntegrationTimeError(it) # NoError
                  THEN fail(IntegrationTimeError(it)) /\ UNCHANGED spectrometer
                  ELSE /\ spectrometer' = [spectrometer EXCEPT !.integration_time = it]
                       /\ SetTask(t, [task[t] EXCEPT
                                        !.pc = "row",
                                        !.nx = Len(task[t].x_positions),
                                        !.ny = Len(task[t].y_positions),
                                        !.batch_size = Cur.parameters.batch_size,
                                        !.batch_points = <<>>,
                                        !.yi = 0])
    /\ UNCHANGED <<status, cancel_requested, pause_requested, current_scan, running,
                   ret, budget, scans>>
    /\ UNCHANGED <<progress_callbacks, calls, report>>

\* ---------------------------------------------------------- _execute_scan
\* The loop variables x and y of the cell the call of t stands at.
CellX(t) == task[t].x_iter[task[t].xi + 1]
CellY(t) == task[t].y_positions[task[t].yi + 1]

\* History: a device or inference call failed for the cell the call of t stands at.
Failure(t, kind, col) ==
    [kind |-> kind, x |-> CellX(t), y |-> CellY(t), yi |-> task[t].yi, col |-> col,
     index |-> 0, batch |-> <<>>]

\* self.current_scan.completed_points += 1 (lines 304 and 316)
CountPoint(cs) == [cs EXCEPT !.completed_points = @ + 1]

\* `completed_points % max(1, total_points // 20) == 0` (line 307)
ProgressDue(cs) ==
    LET every == IF cs.total_points \div 20 >= 1 THEN cs.total_points \div 20 ELSE 1
    IN cs.completed_points % every = 0

\* _notify_progress (lines 105-112): the callbacks are given the result.
NotifyProgress(cs) == [cs EXCEPT !.observed = cs.status]

\* The callbacks: g raises whenever it is called, f never does.
Callbacks == {"f", "g"}
Raises(c) == c = "g"

\* The loop of _notify_progress (lines 108-112) over the list cbs: each
\* callback is called inside its own try, so the loop goes on to the next one
\* whether the call returned or raised.  Yields the callbacks called, in order.
RECURSIVE CallbacksCalled(_)
CallbacksCalled(cbs) ==
    IF cbs = <<>> THEN <<>>
    ELSE <<Head(cbs)>> \o CallbacksCalled(Tail(cbs))

\* calls after lines 304-308 on the result cs.
NotifiedCalls(cs) ==
    IF ProgressDue(CountPoint(cs)) THEN CallbacksCalled(progress_callbacks) ELSE calls

\* Lines 304-308: the cell is counted, and the callbacks are notified when
\* the throttling rule says so.
Progress(cs) ==
    LET counted == CountPoint(cs)
    IN IF ProgressDue(counted)
       THEN [NotifyProgress(counted) EXCEPT !.notified = @ + 1]
       ELSE counted

\* The head of a row, lines 257-270: the pause wait, the cancellation check
\* and the choice of the row's direction.  An exhausted `for yi` ends the loop.
Row(t) ==
    /\ running = t
    /\ task[t].pc = "row"
    /\ IF task[t].yi >= task[t].ny
       THEN SetTask(t, [task[t] EXCEPT !.pc = "complete"]) /\ UNCHANGED running
       ELSE IF pause_requested /\ ~cancel_requested
       THEN SetTask(t, [task[t] EXCEPT !.pc = "pausewait"]) /\ running' = NoTask
       ELSE IF cancel_requested
       THEN SetTask(t, [task[t] EXCEPT !.pc = "complete"]) /\ UNCHANGED running
       ELSE /\ SetTask(t, [task[t] EXCEPT
                             !.pc = "cell",
                             !.xi = 0,
                             !.x_iter = IF Cur.parameters.serpentine /\ task[t].yi % 2 = 1
                                        THEN Reverse(task[t].x_positions)
                                        ELSE task[t].x_positions])
            /\ UNCHANGED running
    /\ UNCHANGED <<status, cancel_requested, pause_requested, current_scan, stage,
                   spectrometer, ret, budget, scans>>
    /\ UNCHANGED <<progress_callbacks, calls, report>>

\* await asyncio.sleep(0.1) of the pause wait (line 260) returns: the while
\* condition is evaluated again.
PauseWake(t) ==
    /\ running = NoTask
    /\ task[t].pc = "pausewait"
    /\ running' = t
    /\ SetTask(t, [task[t] EXCEPT !.pc = "row"])
    /\ UNCHANGED <<status, cancel_requested, pause_requested, current_scan, stage,
                   spectrometer, ret, budget, scans>>
    /\ UNCHANGED <<progress_callbacks, calls, report>>

\* One turn of `for xi, x in x_iter`, lines 272-281: the storage column and
\* the stage move, up to the settling delay.  An exhausted row goes back to
\* the row head (line 318).
Cell(t) ==
    /\ running = t
    /\ task[t].pc = "cell"
    /\ IF task[t].xi >= Len(task[t].x_iter)
       THEN /\ SetTask(t, [task[t] EXCEPT !.pc = "row", !.yi = @ + 1])
            /\ UNCHANGED <<stage, running, budget>>
       ELSE LET reversed == Cur.parameters.serpentine /\ task[t].yi % 2 = 1
                col == IF ~reversed THEN task[t].xi ELSE task[t].nx - 1 - task[t].xi
                err == MoveAbsError(stage, CellX(t), CellY(t))
                at == [task[t] EXCEPT !.col = col,
                                      !.visited = Append(@, <<CellX(t), CellY(t)>>)]
            IN IF err # NoError
               THEN /\ SetTask(t, [at EXCEPT !.pc = "except", !.exc = err,
                                             !.fails = Append(@, Failure(t, "move", col))])
                    /\ UNCHANGED <<stage, running, budget>>
               ELSE \E fault \in FaultChoice :
                       IF fault
                       THEN /\ budget' = budget - 1
                            /\ SetTask(t, [at EXCEPT !.pc = "except", !.exc = TransientFault,
                                                     !.fails = Append(@, Failure(t, "move", col))])
                            /\ UNCHANGED <<stage, running>>
                       ELSE /\ stage' = [stage EXCEPT !.x = CellX(t), !.y = CellY(t)]
                            /\ SetTask(t, [at EXCEPT !.pc = "settle"])
                            /\ running' = NoTask
                            /\ UNCHANGED budget
    /\ UNCHANGED <<status, cancel_requested, pause_requested, current_scan,
                   spectrometer, ret, scans>>
    /\ UNCHANGED <<progress_callbacks, calls, report>>

\* ScanPoint(x, y, wavelengths, intensities, timestamp), line 289
NewPoint(t, spectrum, now) ==
    [x |-> CellX(t), y |-> CellY(t), spectrum |-> spectrum, purity_score |-> None,
     confidence |-> None, timestamp |-> now, error |-> NoError, owner |-> t]

\* ScanPoint(x, y, error, timestamp), line 313
ErrorPoint(t, msg, now) ==
    [x |-> CellX(t), y |-> CellY(t), spectrum |-> <<>>, purity_score |-> None,
     confidence |-> None, timestamp |-> now, error |-> msg, owner |-> t]

\* The settling delay returns; lines 283-308: the spectrum is read, the point
\* joins the batch, and unless the batch is to be flushed the cell is counted.
Acquire(t) ==
    /\ running = NoTask
    /\ task[t].pc = "settle"
    /\ running' = t
    /\ LET err == ReadSpectrumError(spectrometer, Cur.parameters.integration_time)
           point == NewPoint(t, <<stage.x, stage.y>>, Later(Cur.start_time))
           batch == Append(task[t].batch_points,
                           [point |-> point, yi |-> task[t].yi, col |-> task[t].col])
           last == task[t].yi = task[t].ny - 1 /\ task[t].xi = Len(task[t].x_iter) - 1
       IN IF err # NoError
          THEN /\ SetTask(t, [task[t] EXCEPT !.pc = "except", !.exc = err,
                                             !.fails = Append(@, Failure(t, "read", task[t].col))])
               /\ UNCHANGED <<current_scan, budget, calls>>
          ELSE \E fault \in FaultChoice :
                  IF fault
                  THEN /\ budget' = budget - 1
                       /\ SetTask(t, [task[t] EXCEPT !.pc = "except", !.exc = TransientFault,
                                                     !.fails = Append(@, Failure(t, "read", task[t].col))])
                       /\ UNCHANGED <<current_scan, calls>>
                  ELSE IF Len(batch) >= task[t].batch_size \/ last
                  THEN /\ SetTask(t, [task[t] EXCEPT !.pc = "flush", !.batch_points = batch])
                       /\ UNCHANGED <<current_scan, budget, calls>>
                  ELSE /\ SetTask(t, [task[t] EXCEPT !.pc = "cell", !.batch_points = batch,
                                                     !.xi = @ + 1])
                       /\ current_scan' = <<Progress(Cur)>>
                       /\ calls' = NotifiedCalls(Cur)
                       /\ UNCHANGED budget
    /\ UNCHANGED <<status, cancel_requested, pause_requested, stage, spectrometer,
                   ret, scans>>
    /\ UNCHANGED <<progress_callbacks, report>>

\* ---------------------------------------------------------- _process_batch
SetMin(S) == CHOOSE m \in S : \A z \in S : m <= z
SetMax(S) == CHOOSE m \in S : \A z \in S : m >= z

\* The entries of a batch whose grid[yi, col] raises IndexError in grid g.
OutOfGrid(g, bp) == {j \in 1..Len(bp) : ~InGrid(g, bp[j].yi, bp[j].col)}

\* grid after `grid[yi, col] = vals[j]` for the batch entries 1..k, in order.
GridWrites(g, bp, k, vals) ==
    [r \in DOMAIN g |-> [c \in DOMAIN g[r] |->
        LET W == {j \in 1..k : bp[j].yi = r /\ bp[j].col = c}
        IN IF W = {} THEN g[r][c] ELSE vals[SetMax(W)]]]

\* Two records of the same ScanPoint object: the batch holds the points the
\* call of one caller acquired, one per cell.
SamePoint(p, q) ==
    p.owner = q.owner /\ p.x = q.x /\ p.y = q.y /\ p.spectrum # <<>> /\ q.spectrum # <<>>

\* The points list holds references: an entry that is an object of the batch
\* shows what the flush did to that object.
Resolve(points, bpOld, bpNew) ==
    [i \in 1..Len(points) |->
        IF \E j \in 1..Len(bpOld) : SamePoint(points[i], bpOld[j].point)
        THEN bpNew[CHOOSE j \in 1..Len(bpOld) : SamePoint(points[i], bpOld[j].point)].point
        ELSE points[i]]

\* The except clause of _process_batch, lines 377-383, entered with message
\* msg, the batch objects bpIn, the grid gIn and the batch entries `done`
\* already appended to points by the try block.  The clause itself raises
\* IndexError at the first entry outside the grid, after marking its point.
BatchHandler(cs, bpOld, bpIn, gIn, done, msg) ==
    LET n == Len(bpIn)
        bad == OutOfGrid(gIn, bpIn)
        h == IF bad = {} THEN n + 1 ELSE SetMin(bad)
        bpOut == [j \in 1..n |->
                    IF j <= h THEN [bpIn[j] EXCEPT !.point.error = msg] ELSE bpIn[j]]
        nan == [j \in 1..n |-> NaN]
        appended == [i \in 1..(done + h - 1) |->
                        IF i <= done THEN bpOut[i].point ELSE bpOut[i - done].point]
    IN [scan |-> [cs EXCEPT !.grid = GridWrites(gIn, bpIn, h - 1, nan),
                            !.points = Resolve(cs.points, bpOld, bpOut) \o appended],
        batch |-> bpOut,
        exc |-> IF bad = {} THEN NoError ELSE IndexErrorMsg]

\* _process_batch(batch_points), lines 320-383, on the ScanResult cs.  f is
\* the batch entry whose predict call raises (0: none does).  Yields the
\* ScanResult afterwards, the batch objects afterwards, and the message of
\* the exception that leaves _process_batch (NoError: it returns).
ProcessBatch(cs, bp, f) ==
    LET n == Len(bp)
        score(j) == Purity(bp[j].point.spectrum)
        scored(j) == [bp[j] EXCEPT !.point.purity_score = score(j),
                                   !.point.confidence = Confidence(bp[j].point.spectrum)]
        bad == OutOfGrid(cs.grid, bp)
        \* the update loop (367-375) completes entries 1..k
        k == IF bad = {} THEN n ELSE SetMin(bad) - 1
        bpUpd == [j \in 1..n |-> IF j <= k + 1 THEN scored(j) ELSE bp[j]]
        gUpd == GridWrites(cs.grid, bp, k, [j \in 1..n |-> score(j)])
    IN IF f > 0
       THEN BatchHandler(cs, bp, bp, cs.grid, 0, PredictErrorMsg)
       ELSE IF k = n
       THEN [scan |-> [cs EXCEPT !.grid = gUpd,
                                 !.points = Resolve(cs.points, bp, bpUpd)
                                            \o [j \in 1..n |-> bpUpd[j].point]],
             batch |-> bpUpd,
             exc |-> NoError]
       ELSE BatchHandler(cs, bp, bpUpd, gUpd, k, IndexErrorMsg)

\* Lines 299-308: the batch is flushed; on return the buffer is cleared and
\* the cell counted.  An exception leaving _process_batch is caught by the
\* cell's except clause, and the buffer keeps its points.
Flush(t) ==
    /\ running = t
    /\ task[t].pc = "flush"
    /\ \E f \in (IF budget > 0 THEN 0..Len(task[t].batch_points) ELSE {0}) :
          /\ budget' = IF f > 0 THEN budget - 1 ELSE budget
          /\ LET out == ProcessBatch(Cur, task[t].batch_points, f)
                 fails == IF f > 0
                          THEN Append(task[t].fails,
                                      [kind |-> "predict",
                                       x |-> task[t].batch_points[f].point.x,
                                       y |-> task[t].batch_points[f].point.y,
                                       yi |-> task[t].batch_points[f].yi,
                                       col |-> task[t].batch_points[f].col,
                                       index |-> f,
                                       batch |-> [j \in 1..Len(task[t].batch_points) |->
                                                    <<task[t].batch_points[j].point.x,
                                                      task[t].batch_points[j].point.y>>]])
                          ELSE task[t].fails
                 \* predict is awaited for the entries in order, up to the
                 \* one that raises (lines 340-364)
                 called == [j \in 1..(IF f > 0 THEN f ELSE Len(task[t].batch_points)) |->
                              task[t].batch_points[j].point.spectrum]
             IN IF out.exc = NoError
                THEN /\ current_scan' = <<Progress(out.scan)>>
                     /\ calls' = NotifiedCalls(out.scan)
                     /\ SetTask(t, [task[t] EXCEPT !.pc = "cell", !.batch_points = <<>>,
                                                   !.xi = @ + 1,
                                                   !.fails = fails,
                                                   !.predicts = @ \o called])
                ELSE /\ current_scan' = <<out.scan>>
                     /\ UNCHANGED calls
                     /\ SetTask(t, [task[t] EXCEPT !.pc = "except", !.exc = out.exc,
                                                   !.batch_points = out.batch,
                                                   !.fails = fails,
                                                   !.predicts = @ \o called])
    /\ UNCHANGED <<status, cancel_requested, pause_requested, stage, spectrometer,
                   running, ret, scans>>
    /\ UNCHANGED <<progress_callbacks, report>>

\* The cell's except clause, lines 310-316.  The assignment to the grid raises
\* IndexError itself when the cell lies outside the current grid; the
\* exception then leaves _execute_scan.
Except(t) ==
    /\ running = t
    /\ task[t].pc = "except"
    /\ LET withPoint == [Cur EXCEPT !.points = Append(@, ErrorPoint(t, task[t].exc, Later(Cur.start_time)))]
       IN IF InGrid(Cur.grid, task[t].yi, task[t].col)
          THEN /\ current_scan' =
                     <<CountPoint([withPoint EXCEPT
                                     !.grid = GridSet(@, task[t].yi, task[t].col, NaN)])>>
               /\ SetTask(t, [task[t] EXCEPT !.pc = "cell", !.xi = @ + 1, !.exc = NoError])
          ELSE /\ current_scan' = <<withPoint>>
               /\ SetTask(t, [task[t] EXCEPT !.pc = "error", !.exc = IndexErrorMsg])
    /\ UNCHANGED <<status, cancel_requested, pause_requested, stage, spectrometer,
                   running, ret, budget, scans>>
    /\ UNCHANGED <<progress_callbacks, calls, report>>

\* ------------------------------------------------- the end of start_scan
\* A completion whose finally clause notifies nobody.
CompleteUnnotified(t) ==
    /\ running = t
    /\ task[t].pc = "complete"
    /\ current_scan' = <<[Cur EXCEPT !.status = COMPLETED, !.end_time = Later(LastTime(Cur))]>>
    /\ status' = IDLE
    /\ SetTask(t, [task[t] EXCEPT !.pc = "done"])
    /\ ret' = [ret EXCEPT ![t] = [kind |-> "returned", msg |-> NoError, status |-> COMPLETED]]
    /\ running' = NoTask
    /\ UNCHANGED <<cancel_requested, pause_requested, stage, spectrometer, budget, scans>>
    /\ UNCHANGED <<progress_callbacks, calls, report>>

\* _execute_scan returned: lines 165-170, the finally clause (line 181) and
\* the return of self.current_scan.
Complete(t) ==
    /\ running = t
    /\ task[t].pc = "complete"
    /\ current_scan' = <<NotifyProgress([Cur EXCEPT !.status = COMPLETED,
                                                    !.end_time = Later(LastTime(Cur))])>>
    /\ status' = IDLE
    /\ SetTask(t, [task[t] EXCEPT !.pc = "done"])
    /\ ret' = [ret EXCEPT ![t] = [kind |-> "returned", msg |-> NoError, status |-> COMPLETED]]
    /\ running' = NoTask
    /\ UNCHANGED <<cancel_requested, pause_requested, stage, spectrometer, budget, scans>>
    /\ calls' = CallbacksCalled(progress_callbacks)
    /\ UNCHANGED <<progress_callbacks, report>>

\* An error path that finalizes the result and leaves the orchestrator status
\* as it is.
ErrorKeepsStatus(t) ==
    /\ running = t
    /\ task[t].pc = "error"
    /\ current_scan' = <<NotifyProgress([Cur EXCEPT !.status = ERROR,
                                                    !.error_message = task[t].exc,
                                                    !.end_time = Later(LastTime(Cur))])>>
    /\ SetTask(t, [task[t] EXCEPT !.pc = "done"])
    /\ ret' = [ret EXCEPT ![t] = [kind |-> "raised", msg |-> task[t].exc, status |-> ERROR]]
    /\ running' = NoTask
    /\ UNCHANGED <<status, cancel_requested, pause_requested, stage, spectrometer,
                   budget, scans>>
    /\ calls' = CallbacksCalled(progress_callbacks)
    /\ UNCHANGED <<progress_callbacks, report>>

\* An exception left the try block: lines 172-178, the finally clause (line
\* 181), and the exception raised again to the caller.
Error(t) ==
    /\ running = t
    /\ task[t].pc = "error"
    /\ current_scan' = <<NotifyProgress([Cur EXCEPT !.status = ERROR,
                                                    !.error_message = task[t].exc,
                                                    !.end_time = Later(LastTime(Cur))])>>
    /\ status' = IDLE
    /\ SetTask(t, [task[t] EXCEPT !.pc = "done"])
    /\ ret' = [ret EXCEPT ![t] = [kind |-> "raised", msg |-> task[t].exc, status |-> ERROR]]
    /\ running' = NoTask
    /\ UNCHANGED <<cancel_requested, pause_requested, stage, spectrometer, budget, scans>>
    /\ calls' = CallbacksCalled(progress_callbacks)
    /\ UNCHANGED <<progress_callbacks, report>>

\* ------------------------------------------------ pause, resume, cancel
\* A pause_scan without the status test.
PauseScanAnyStatus ==
    /\ running = NoTask
    /\ pause_requested' = TRUE
    /\ status' = PAUSED
    /\ UNCHANGED <<cancel_requested, current_scan, stage, spectrometer, task, running,
                   ret, budget, scans>>
    /\ UNCHANGED <<progress_callbacks, calls, report>>

\* pause_scan, lines 185-190
PauseScan ==
    /\ running = NoTask
    /\ IF status = RUNNING
       THEN pause_requested' = TRUE /\ status' = PAUSED
       ELSE UNCHANGED <<pause_requested, status>>
    /\ UNCHANGED <<cancel_requested, current_scan, stage, spectrometer, task, running,
                   ret, budget, scans>>
    /\ UNCHANGED <<progress_callbacks, calls, report>>

\* resume_scan, lines 192-197
ResumeScan ==
    /\ running = NoTask
    /\ IF status = PAUSED
       THEN pause_requested' = FALSE /\ status' = RUNNING
       ELSE UNCHANGED <<pause_requested, status>>
    /\ UNCHANGED <<cancel_requested, current_scan, stage, spectrometer, task, running,
                   ret, budget, scans>>
    /\ UNCHANGED <<progress_callbacks, calls, report>>

\* A cancel_scan that leaves the result as it is.
CancelScanKeepingResult ==
    /\ running = NoTask
    /\ IF status \in {RUNNING, PAUSED}
       THEN /\ cancel_requested' = TRUE
            /\ status' = IDLE
            /\ task' = [t \in Tasks |->
                          IF task[t].pc \in {"idle", "done"} THEN task[t]
                          ELSE [task[t] EXCEPT !.cancelled = TRUE]]
       ELSE UNCHANGED <<cancel_requested, status, task>>
    /\ UNCHANGED <<current_scan, pause_requested, stage, spectrometer, running, ret,
                   budget, scans>>
    /\ UNCHANGED <<progress_callbacks, calls, report>>

\* cancel_scan, lines 199-207
CancelScan ==
    /\ running = NoTask
    /\ IF status \in {RUNNING, PAUSED}
       THEN /\ cancel_requested' = TRUE
            /\ IF current_scan # <<>>
               THEN current_scan' = <<[Cur EXCEPT !.status = CANCELLED,
                                                  !.end_time = Later(LastTime(Cur))]>>
               ELSE UNCHANGED current_scan
            /\ status' = IDLE
            /\ task' = [t \in Tasks |->
                          IF task[t].pc \in {"idle", "done"} THEN task[t]
                          ELSE [task[t] EXCEPT !.cancelled = TRUE]]
       ELSE UNCHANGED <<cancel_requested, current_scan, status, task>>
    /\ UNCHANGED <<pause_requested, stage, spectrometer, running, ret, budget, scans>>
    /\ UNCHANGED <<progress_callbacks, calls, report>>

\* ---------------------------------------------------------- specifications
\* One step of the start_scan call of caller t.
ScanStep(t) ==
    \/ PrepareHardware(t)
    \/ Row(t)
    \/ PauseWake(t)
    \/ Cell(t)
    \/ Acquire(t)
    \/ Flush(t)
    \/ Except(t)
    \/ Complete(t)
    \/ Error(t)

\* Any caller may call start_scan at any time.
Next ==
    \/ \E t \in Tasks : StartScan(t, ScanParameters)
    \/ \E t \in Tasks : ScanStep(t)
    \/ PauseScan
    \/ ResumeScan
    \/ CancelScan

Spec == Init /\ [][Next]_vars

\* Spec with one caller, who runs its scans one after the other; pause,
\* resume and cancel requests arrive at any time.
NextSolo ==
    \/ StartScan("A", ScanParameters)
    \/ ScanStep("A")
    \/ PauseScan
    \/ ResumeScan
    \/ CancelScan

SpecSolo == Init /\ [][NextSolo]_vars

\* Spec with both callers, for the scans of two columns and without
\* transient faults.
RaceParameters == {p \in ScanParameters : p.x_start = 0 /\ p.x_end <= 1}

NextRace ==
    \/ \E t \in Tasks : StartScan(t, RaceParameters)
    \/ \E t \in Tasks : ScanStep(t)
    \/ PauseScan
    \/ ResumeScan
    \/ CancelScan

\* Two callers, one scan shape per number of rows, and one device fault.
FaultRaceParameters == {p \in RaceParameters : ~p.serpentine /\ p.batch_size = 1}

NextFaultRace ==
    \/ \E t \in Tasks : StartScan(t, FaultRaceParameters)
    \/ \E t \in Tasks : ScanStep(t)
    \/ PauseScan
    \/ ResumeScan
    \/ CancelScan

InitFaultRace == InitOrchestrator /\ budget = 1

SpecFaultRace == InitFaultRace /\ [][NextFaultRace]_vars

\* No device or inference faults: the race needs none.
InitRace == InitOrchestrator /\ budget = 0

SpecRace == InitRace /\ [][NextRace]_vars

\* add_progress_callback (lines 96-98): list.append, a callback already in
\* the list is registered once more.
AddProgressCallback(c) ==
    /\ running = NoTask
    /\ Len(progress_callbacks) < MaxCallbacks
    /\ progress_callbacks' = Append(progress_callbacks, c)
    /\ UNCHANGED <<status, cancel_requested, pause_requested, current_scan, stage,
                   spectrometer, task, running, ret, budget, scans, calls, report>>

\* list.remove (line 103): the list without the first item equal to c.
RemoveFirst(cbs, c) ==
    LET at == CHOOSE i \in 1..Len(cbs) : cbs[i] = c /\ \A j \in 1..(i - 1) : cbs[j] # c
    IN SubSeq(cbs, 1, at - 1) \o SubSeq(cbs, at + 1, Len(cbs))

\* remove_progress_callback (lines 100-103).
RemoveProgressCallback(c) ==
    /\ running = NoTask
    /\ progress_callbacks' = IF \E i \in 1..Len(progress_callbacks) : progress_callbacks[i] = c
                              THEN RemoveFirst(progress_callbacks, c)
                              ELSE progress_callbacks
    /\ UNCHANGED <<status, cancel_requested, pause_requested, current_scan, stage,
                   spectrometer, task, running, ret, budget, scans, calls, report>>

\* Spec with one caller and the observers: callbacks are registered and
\* removed between the steps of the scans, and one device fault may happen.
NextObservers ==
    \/ StartScan("A", FaultRaceParameters)
    \/ ScanStep("A")
    \/ PauseScan
    \/ ResumeScan
    \/ CancelScan
    \/ \E c \in Callbacks : AddProgressCallback(c)
    \/ \E c \in Callbacks : RemoveProgressCallback(c)

SpecObservers == InitFaultRace /\ [][NextObservers]_vars

\* Spec with one caller whose scans have steps that divide the range and
\* steps that do not, on both axes.
GridParameters ==
    [x_start : 0..1, x_end : 1..StageXMax, step_x : 1..MaxCoord,
     y_start : 0..1, y_end : 1..StageYMax, step_y : 1..MaxCoord,
     integration_time : {DefaultIntegrationTime},
     overlap_percent : {0},
     serpentine : {TRUE},
     batch_size : {1}]

NextGrid ==
    \/ StartScan("A", GridParameters)
    \/ ScanStep("A")
    \/ PauseScan
    \/ ResumeScan
    \/ CancelScan

SpecGrid == InitFaultRace /\ [][NextGrid]_vars

\* The dict get_scan_status builds, lines 211-225; progress is the quotient
\* of line 214 as the pair <<numerator, denominator>>.  The two entries read
\* from the wall clock (elapsed_time, estimated_remaining) are left out.
StatusReport ==
    IF current_scan = <<>>
    THEN [status |-> status]
    ELSE [status |-> status,
          progress |-> IF Cur.total_points > 0
                       THEN <<Cur.completed_points, Cur.total_points>>
                       ELSE <<0, 1>>,
          completed_points |-> Cur.completed_points,
          total_points |-> Cur.total_points,
          error_message |-> Cur.error_message]

\* A status call that also clears the flags.
GetScanStatusClearingFlags ==
    /\ running = NoTask
    /\ report' = StatusReport
    /\ cancel_requested' = FALSE
    /\ pause_requested' = FALSE
    /\ UNCHANGED <<status, current_scan, stage, spectrometer, task, running, ret,
                   budget, scans, progress_callbacks, calls>>

\* get_scan_status, lines 209-225.
GetScanStatus ==
    /\ running = NoTask
    /\ report' = StatusReport
    /\ UNCHANGED <<status, cancel_requested, pause_requested, current_scan, stage,
                   spectrometer, task, running, ret, budget, scans, progress_callbacks,
                   calls>>

\* Spec with one caller and a client that polls the status between the steps
\* of the scans; one device fault may happen.
NextStatus ==
    \/ StartScan("A", FaultRaceParameters)
    \/ ScanStep("A")
    \/ PauseScan
    \/ ResumeScan
    \/ CancelScan
    \/ GetScanStatus

SpecStatus == InitFaultRace /\ [][NextStatus]_vars

\* Spec with both callers for scans of one and of two rows of three columns,
\* in batches of two (a batch may span two rows); without transient faults.
BatchRaceParameters ==
    {p \in ScanParameters : /\ p.x_start = 0 /\ p.x_end = StageXMax /\ p.y_end = 1
                            /\ ~p.serpentine /\ p.batch_size = MaxBatch}

NextBatchRace ==
    \/ \E t \in Tasks : StartScan(t, BatchRaceParameters)
    \/ \E t \in Tasks : ScanStep(t)
    \/ PauseScan
    \/ ResumeScan
    \/ CancelScan

SpecBatchRace == InitRace /\ [][NextBatchRace]_vars

\* ------------------------------------------------- the stage driver alone
\* The calls of StageController made directly by caller A while no scan runs;
\* ret holds how A's last call ended.
StageReturns == [kind |-> "returned", msg |-> NoError, status |-> IDLE]
StageRaises(msg) == [kind |-> "raised", msg |-> msg, status |-> IDLE]

NoScanRuns ==
    /\ running = NoTask
    /\ status = IDLE
    /\ UNCHANGED <<status, cancel_requested, pause_requested, current_scan, spectrometer,
                   task, running, budget, scans, progress_callbacks, calls, report>>

\* connect, lines 37-57
StageConnect ==
    /\ NoScanRuns
    /\ stage' = [stage EXCEPT !.is_connected = TRUE]
    /\ ret' = [ret EXCEPT !["A"] = StageReturns]

\* disconnect, lines 59-66
StageDisconnect ==
    /\ NoScanRuns
    /\ stage' = [stage EXCEPT !.is_connected = FALSE]
    /\ ret' = [ret EXCEPT !["A"] = StageReturns]

\* home, lines 69-91
StageHome ==
    /\ NoScanRuns
    /\ IF ~stage.is_connected
       THEN /\ ret' = [ret EXCEPT !["A"] = StageRaises("Stage not connected")]
            /\ UNCHANGED stage
       ELSE /\ stage' = [stage EXCEPT !.is_homed = TRUE, !.x = 0, !.y = 0]
            /\ ret' = [ret EXCEPT !["A"] = StageReturns]

\* move_abs, lines 95-141
StageMoveAbs(x_mm, y_mm) ==
    /\ NoScanRuns
    /\ IF MoveAbsError(stage, x_mm, y_mm) # NoError
       THEN /\ ret' = [ret EXCEPT !["A"] = StageRaises(MoveAbsError(stage, x_mm, y_mm))]
            /\ UNCHANGED stage
       ELSE /\ stage' = [stage EXCEPT !.x = x_mm, !.y = y_mm]
            /\ ret' = [ret EXCEPT !["A"] = StageReturns]

\* stop, lines 174-182
StageStop ==
    /\ NoScanRuns
    /\ stage' = [stage EXCEPT !.emergency_stop = TRUE]
    /\ ret' = [ret EXCEPT !["A"] = StageReturns]

\* reset_emergency_stop, lines 184-189
StageResetEmergencyStop ==
    /\ NoScanRuns
    /\ stage' = [stage EXCEPT !.emergency_stop = FALSE]
    /\ ret' = [ret EXCEPT !["A"] = StageReturns]

\* The targets of the moves: on the travel and one step beyond each end.
MoveTargets == -1..(StageXMax + 1)

NextStage ==
    \/ StageConnect
    \/ StageDisconnect
    \/ StageHome
    \/ \E x_mm \in MoveTargets, y_mm \in MoveTargets : StageMoveAbs(x_mm, y_mm)
    \/ StageStop
    \/ StageResetEmergencyStop

InitStage == InitOrchestrator /\ budget = 0

SpecStage == InitStage /\ [][NextStage]_vars

\* Spec with one caller whose X ranges lie where floating point no longer
\* holds every whole number: scans from FloatStart to FloatEnd, the end of
\* the stage's X travel, by steps of 1 and of 2.
FloatStart == 2^MantissaBits + 2
FloatEnd == 2^MantissaBits + 4

FloatParameters ==
    [x_start : {FloatStart}, x_end : {FloatEnd}, step_x : 1..2,
     y_start : {0}, y_end : {1}, step_y : 1..2,
     integration_time : {DefaultIntegrationTime},
     overlap_percent : {0},
     serpentine : BOOLEAN,
     batch_size : {1}]

NextFloat ==
    \/ StartScan("A", FloatParameters)
    \/ ScanStep("A")
    \/ PauseScan
    \/ ResumeScan
    \/ CancelScan

InitFloat == InitWithTravel(FloatEnd, StageYMax) /\ budget = 1

SpecFloat == InitFloat /\ [][NextFloat]_vars

\* Spec with one caller whose requests include the ones validation is there
\* to refuse: corners off the stage travel, empty ranges, steps and
\* integration times that are not positive, overlaps off the percent scale.
ValidationParameters ==
    [x_start : {-1, 0, 1}, x_end : {1, MaxCoord}, step_x : {0, 1},
     y_start : {-1, 0, 1}, y_end : {1, MaxCoord}, step_y : {-1, 1},
     integration_time : {0, DefaultIntegrationTime},
     overlap_percent : {-1, 0, 100, 101},
     serpentine : {TRUE},
     batch_size : {1}]

NextValidate ==
    \/ StartScan("A", ValidationParameters)
    \/ ScanStep("A")
    \/ PauseScan
    \/ ResumeScan
    \/ CancelScan

\* One transient fault is enough to reach every step of a scan.
InitValidate == InitOrchestrator /\ budget = 1

SpecValidate == InitValidate /\ [][NextValidate]_vars

\* Spec with both callers, without transient faults, for two grid shapes and
\* for integration times the spectrometer accepts and refuses.
AbortParameters ==
    [x_start : {0}, x_end : {1}, step_x : {1},
     y_start : {0}, y_end : {1}, step_y : 1..2,
     integration_time : {DefaultIntegrationTime, IntegrationTimeMax + 1},
     overlap_percent : {0},
     serpentine : {FALSE},
     batch_size : {1}]

NextAbort ==
    \/ \E t \in Tasks : StartScan(t, AbortParameters)
    \/ \E t \in Tasks : ScanStep(t)
    \/ PauseScan
    \/ ResumeScan
    \/ CancelScan

SpecAbort == InitRace /\ [][NextAbort]_vars

\* The counting of a traversal on its own.  A scan of one row and n columns
\* (on a stage whose travel holds them) is under way; each cell ends either
\* on line 304, counted and passed to the throttling rule, or in the cell's
\* except clause, counted on line 316 without a notification.
ThrottleParameters(n) ==
    [x_start |-> 0, x_end |-> IF n = 1 THEN 1 ELSE n - 1, step_x |-> IF n = 1 THEN 2 ELSE 1,
     y_start |-> 0, y_end |-> 1, step_y |-> 2,
     integration_time |-> DefaultIntegrationTime, overlap_percent |-> 0,
     serpentine |-> FALSE, batch_size |-> 1]

InitThrottle ==
    /\ status = RUNNING
    /\ cancel_requested = FALSE
    /\ pause_requested = FALSE
    /\ \E n \in 1..MaxTotal : current_scan = <<NewScanResult(ThrottleParameters(n), StartTime)>>
    /\ stage = [is_connected |-> TRUE, is_homed |-> TRUE, emergency_stop |-> FALSE,
                x |-> 0, y |-> 0, x_max_mm |-> MaxTotal, y_max_mm |-> StageYMax]
    /\ spectrometer = [is_connected |-> TRUE, integration_time |-> DefaultIntegrationTime]
    /\ task = [t \in Tasks |-> IdleTask]
    /\ running = NoTask
    /\ ret = [t \in Tasks |-> NoRet]
    /\ budget = 0
    /\ scans = 1
    /\ progress_callbacks = <<>>
    /\ calls = <<>>
    /\ report = NoReport

CellCounted ==
    /\ Cur.completed_points < Cur.total_points
    /\ current_scan' = <<Progress(Cur)>>
    /\ UNCHANGED <<status, cancel_requested, pause_requested, stage, spectrometer, task,
                   running, ret, budget, scans>>
    /\ calls' = NotifiedCalls(Cur)
    /\ UNCHANGED <<progress_callbacks, report>>

CellFailed ==
    /\ Cur.completed_points < Cur.total_points
    /\ current_scan' = <<CountPoint(Cur)>>
    /\ UNCHANGED <<status, cancel_requested, pause_requested, stage, spectrometer, task,
                   running, ret, budget, scans>>
    /\ UNCHANGED <<progress_callbacks, calls, report>>

NextThrottle == CellCounted \/ CellFailed

SpecThrottle == InitThrottle /\ [][NextThrottle]_vars

\* The scheduling behind termination.  The event loop runs every coroutine
\* that is ready (weak fairness of the steps of a call).  A pause is followed
\* by a resume_scan or cancel_scan made while the orchestrator is PAUSED, and
\* a pause wait whose condition has become false is left before the scan is
\* paused for ever again (strong fairness: both are enabled off and on).
Unpause == status = PAUSED /\ (ResumeScan \/ CancelScan)

WakeReleased(t) == PauseWake(t) /\ ~(pause_requested /\ ~cancel_requested)

Fairness ==
    /\ \A t \in Tasks : WF_vars(ScanStep(t)) /\ SF_vars(WakeReleased(t))
    /\ SF_vars(Unpause)

\* One caller, fair scheduling.
SpecFairSolo == Init /\ [][NextSolo]_vars /\ Fairness

\* Both callers, one fault, fair scheduling.
SpecFairRace == InitFaultRace /\ [][NextFaultRace]_vars /\ Fairness

\* One caller and a client that keeps polling the status, fair scheduling.
SpecFairStatus ==
    InitFaultRace /\ [][NextStatus]_vars /\ Fairness /\ WF_vars(GetScanStatus)

\* ------------------------------------------------------------- properties
\* The start_scan call of t is in flight: accepted and not yet returned.
InFlight(t) == task[t].pc \notin {"idle", "done"}

\* The start_scan call of t has returned its ScanResult.
Returned(t) == task[t].pc = "done" /\ ret[t].kind = "returned"

Coords(points) == [i \in 1..Len(points) |-> <<points[i].x, points[i].y>>]

\* 0-based index of v in the axis xs
IndexOf(xs, v) == (CHOOSE i \in 1..Len(xs) : xs[i] = v) - 1

DeviceFailure(f) == f.kind \in {"move", "read"}

\* The exception the cell's handler holds came from stage.move_abs or from
\* spectrometer.read_spectrum.
DeviceException(msg) == msg \notin {NoError, IndexErrorMsg, PredictErrorMsg}

\* A step of a caller without a call in flight is that caller calling start_scan.
StartScanStep(t) == ~InFlight(t) /\ (task'[t] # task[t] \/ ret'[t] # ret[t])

\* C1: a start_scan call made while the orchestrator status is RUNNING or
\* PAUSED ends with RuntimeError and changes nothing: the status, the two
\* flags, current_scan with every field of its ScanResult, the devices and
\* the other caller's scan stay as they were.
C1_RejectedStartMutatesNothing ==
    [][\A t \in Tasks :
          (status # IDLE /\ StartScanStep(t))
              => /\ ret'[t].kind = "RuntimeError"
                 /\ UNCHANGED <<status, cancel_requested, pause_requested, current_scan,
                                stage, spectrometer>>
                 /\ \A u \in Tasks \ {t} : task'[u] = task[u]]_vars

C1_Witness ==
    \E t \in Tasks :
        /\ ret[t].kind = "RuntimeError"
        /\ status \in {RUNNING, PAUSED}
        /\ current_scan # <<>>
        /\ Cur.completed_points > 0

\* C2: at most one start_scan call is in flight (accepted and with its
\* traversal loop not yet returned) at any time.
C2_OneActiveScan == Cardinality({t \in Tasks : InFlight(t)}) <= 1

\* C3: when cancel_scan was accepted during a scan, the ScanResult that
\* start_scan returns has status CANCELLED and an end_time, and the
\* orchestrator status is IDLE.
C3_CancelledResultReturned ==
    \A t \in Tasks :
        (Returned(t) /\ cancel_requested)
            => /\ ret[t].status = CANCELLED
               /\ Cur.status = CANCELLED
               /\ Cur.end_time # None
               /\ status = IDLE

\* C4: once cancel_scan has set the cancellation flag, no stage motion for a
\* further cell is started.
C4_NoMoveAfterCancel ==
    [][\A t \in Tasks :
          cancel_requested => Len(task'[t].visited) <= Len(task[t].visited)]_vars

\* C5: when a cancelled scan returns, points holds one point for every cell
\* visited, in the order of the visits, and the grid cell of every scored
\* point holds its score.
C5_CancelKeepsVisitedPoints ==
    \A t \in Tasks :
        (Returned(t) /\ cancel_requested)
            => /\ Coords(Cur.points) = task[t].visited
               /\ \A i \in 1..Len(Cur.points) :
                     Cur.points[i].purity_score # None
                         => Cur.grid[IndexOf(Cur.y_positions, Cur.points[i].y)]
                                    [IndexOf(Cur.x_positions, Cur.points[i].x)]
                            = Cur.points[i].purity_score

\* C6: while the orchestrator status is PAUSED no further cell is moved to.
C6_NoMoveWhilePaused ==
    [][\A t \in Tasks : status = PAUSED => task'[t].visited = task[t].visited]_vars

\* C7: when start_scan returns, completed_points equals the number of points.
C7_CompletedEqualsPoints ==
    \A t \in Tasks : Returned(t) => Cur.completed_points = Len(Cur.points)

\* C8: when exactly one device call (stage move or spectrum read) failed, for
\* one cell, and the scan ran to its end, the result has exactly one point with
\* an error, a scored point for every other cell, and completed_points equal
\* to total_points.
C8_SingleFaultIsolated ==
    \A t \in Tasks :
        (/\ Returned(t)
         /\ ~cancel_requested
         /\ Len(task[t].fails) = 1
         /\ DeviceFailure(task[t].fails[1]))
            => /\ Cardinality({i \in 1..Len(Cur.points) : Cur.points[i].error # NoError}) = 1
               /\ Cur.completed_points = Cur.total_points
               /\ \A xi \in 1..Len(Cur.x_positions), yi \in 1..Len(Cur.y_positions) :
                     LET c == <<Cur.x_positions[xi], Cur.y_positions[yi]>>
                     IN c # <<task[t].fails[1].x, task[t].fails[1].y>>
                           => \E i \in 1..Len(Cur.points) :
                                 /\ <<Cur.points[i].x, Cur.points[i].y>> = c
                                 /\ Cur.points[i].purity_score # None
                                 /\ Cur.points[i].error = NoError

\* C9: a failure of the stage move or of the spectrum read of a cell is
\* handled at the cell: the handler appends a point with the error and no
\* score, sets the cell's grid entry to the missing sentinel and goes on with
\* the next cell; nothing is raised to the caller, and a call with such a
\* failure that runs to its end returns a COMPLETED result.
C9_CellFailureRecorded ==
    [][\A t \in Tasks :
          /\ (task[t].pc = "except" /\ DeviceException(task[t].exc) /\ task'[t] # task[t])
                => /\ task'[t].pc = "cell"
                   /\ task'[t].xi = task[t].xi + 1
                   /\ Len(Cur'.points) = Len(Cur.points) + 1
                   /\ LET p == Cur'.points[Len(Cur'.points)]
                      IN /\ p.x = CellX(t) /\ p.y = CellY(t)
                         /\ p.error = task[t].exc
                         /\ p.purity_score = None /\ p.confidence = None
                   /\ Cur'.grid[task[t].yi][task[t].col] = NaN
                   /\ Cur'.completed_points = Cur.completed_points + 1
          /\ (/\ task[t].pc = "complete" /\ task'[t].pc = "done"
              /\ \E k \in 1..Len(task[t].fails) : DeviceFailure(task[t].fails[k]))
                => /\ ret'[t].kind = "returned"
                   /\ ret'[t].status = COMPLETED
                   /\ Cur'.status = COMPLETED]_vars

\* C10: when predict raises for one point of a batch, only that point gets an
\* error and a missing grid cell; the points of the batch whose predict
\* succeeded before it are scored and their scores are in the grid.
C10_PredictFailureIsolated ==
    \A t \in Tasks :
        \A k \in 1..Len(task[t].fails) :
            LET f == task[t].fails[k]
                at(j) == CHOOSE i \in 1..Len(Cur.points) : <<Cur.points[i].x, Cur.points[i].y>> = f.batch[j]
            IN f.kind = "predict"
                  => /\ \A j \in 1..Len(f.batch) :
                           \E i \in 1..Len(Cur.points) :
                               <<Cur.points[i].x, Cur.points[i].y>> = f.batch[j]
                     /\ Cur.points[at(f.index)].error # NoError
                     /\ Cur.grid[f.yi][f.col] = NaN
                     /\ \A j \in 1..Len(f.batch) :
                           j # f.index => Cur.points[at(j)].error = NoError
                     /\ \A j \in 1..(f.index - 1) :
                           /\ Cur.points[at(j)].purity_score # None
                           /\ Cur.grid[IndexOf(Cur.y_positions, f.batch[j][2])]
                                      [IndexOf(Cur.x_positions, f.batch[j][1])]
                              = Cur.points[at(j)].purity_score

\* The Flush step of caller t in which the except clause of _process_batch
\* ran: a predict call raised, or the update loop did.
FlushHandled(t) ==
    /\ task[t].pc = "flush"
    /\ task'[t] # task[t]
    /\ (Len(task'[t].fails) > Len(task[t].fails) \/ task'[t].pc = "except")

\* C11: when a flush raises, every buffered point of the batch is appended to
\* points exactly once, with the same error and without score or confidence,
\* the grid cells of the batch hold the missing sentinel, and the traversal
\* goes on with the next cell.
C11_FlushFailureMarksBatch ==
    [][\A t \in Tasks :
          FlushHandled(t)
              => LET bp == task[t].batch_points
                     n == Len(bp)
                     base == Len(Cur.points)
                 IN /\ task'[t].pc = "cell"
                    /\ task'[t].xi = task[t].xi + 1
                    /\ task'[t].batch_points = <<>>
                    /\ Len(Cur'.points) = base + n
                    /\ \A j \in 1..n :
                          LET p == Cur'.points[base + j]
                          IN /\ p.x = bp[j].point.x /\ p.y = bp[j].point.y
                             /\ p.error # NoError
                             /\ p.error = Cur'.points[base + 1].error
                             /\ p.purity_score = None /\ p.confidence = None
                             /\ Cur'.grid[bp[j].yi][bp[j].col] = NaN]_vars

\* The values of ScanResult.status that end a scan.
Terminal == {COMPLETED, ERROR, CANCELLED}

\* The step leaves the ScanResult object in place: no start_scan was accepted.
SameScan == current_scan # <<>> /\ scans' = scans

\* C12: within one scan a terminal status of the result is never replaced by
\* another status, and completed_points never decreases.
C12_TerminalStatusSetOnce ==
    [][SameScan
          => /\ Cur.status \in Terminal => Cur'.status = Cur.status
             /\ Cur'.completed_points >= Cur.completed_points]_vars

\* C13: once the status of a ScanResult is terminal, no step changes its
\* grid, points, completed_points, end_time, status or error_message.
C13_TerminalResultImmutable ==
    [][(SameScan /\ Cur.status \in Terminal)
          => /\ Cur'.grid = Cur.grid
             /\ Cur'.points = Cur.points
             /\ Cur'.completed_points = Cur.completed_points
             /\ Cur'.end_time = Cur.end_time
             /\ Cur'.status = Cur.status
             /\ Cur'.error_message = Cur.error_message]_vars

\* C14: whenever there is a current scan, completed_points lies in
\* 0..total_points, total_points is len(x_positions) * len(y_positions), and
\* the grid has len(y_positions) rows of len(x_positions) columns.
C14_ResultShape ==
    current_scan # <<>>
        => /\ 0 <= Cur.completed_points
           /\ Cur.completed_points <= Cur.total_points
           /\ Cur.total_points = Len(Cur.x_positions) * Len(Cur.y_positions)
           /\ DOMAIN Cur.grid = 0..(Len(Cur.y_positions) - 1)
           /\ \A r \in DOMAIN Cur.grid : DOMAIN Cur.grid[r] = 0..(Len(Cur.x_positions) - 1)

\* The call of t stands inside the try block or the except clause of a cell
\* (lines 276-316).
InCell(t) == task[t].pc \in {"settle", "flush", "except"}

\* C15: completed_points grows by exactly one when a visited cell is done,
\* whatever the outcome of its move, read and flush, and by nothing while the
\* cell is being handled; a visited cell always ends with the increment and
\* the traversal at the next cell.
C15_OneIncrementPerCell ==
    [][\A t \in Tasks :
          (SameScan /\ task'[t] # task[t])
              => /\ (InCell(t) /\ ~InCell(t)')
                       => /\ task'[t].pc = "cell"
                          /\ task'[t].xi = task[t].xi + 1
                          /\ Cur'.completed_points = Cur.completed_points + 1
                 /\ ~(InCell(t) /\ ~InCell(t)')
                       => Cur'.completed_points = Cur.completed_points]_vars

\* The place of the cell c in the visits of caller t (0: not visited).
VisitIndex(t, c) ==
    IF \E k \in 1..Len(task[t].visited) : task[t].visited[k] = c
    THEN CHOOSE k \in 1..Len(task[t].visited) : task[t].visited[k] = c
    ELSE 0

\* C16: points holds the points in the order of the visits, no two with the
\* same coordinates, and when the traversal has run to the end of the grid
\* every visited cell has its point.
C16_PointsInVisitOrder ==
    \A t \in Tasks :
        (InFlight(t) \/ Returned(t))
            => LET c == Coords(Cur.points)
               IN /\ \A i, j \in 1..Len(c) :
                        i < j => /\ c[i] # c[j]
                                 /\ VisitIndex(t, c[i]) > 0
                                 /\ VisitIndex(t, c[i]) < VisitIndex(t, c[j])
                  /\ (Returned(t) /\ ~cancel_requested) => Len(c) = Len(task[t].visited)

\* The row the call of t is in is traversed in decreasing X.
ReversedRow(t) == task[t].x_iter # task[t].x_positions

\* The step in which the call of t visits a cell: the storage column is
\* computed and the stage move issued (lines 274-278).
Visit(t) == task[t].pc = "cell" /\ task'[t].pc \in {"settle", "except"}

\* C17: the storage column of a visited cell is nx-1-xi on a reversed row and
\* xi on any other row, and it is the index of the cell's x in x_positions;
\* at the end of a row the columns of its visited cells are 0..nx-1; the
\* score of every scored point is in the grid at the row of its y and the
\* column of its x.
C17_SerpentineColumns ==
    [][\A t \in Tasks :
          /\ Visit(t)
                => /\ task'[t].col = IF ReversedRow(t) THEN task[t].nx - 1 - task[t].xi
                                                       ELSE task[t].xi
                   /\ task[t].x_positions[task'[t].col + 1] = CellX(t)
          /\ (task[t].pc = "cell" /\ task'[t].pc = "row")
                => {IndexOf(task[t].x_positions, task[t].visited[k][1]) :
                       k \in {k \in 1..Len(task[t].visited) :
                                 task[t].visited[k][2] = CellY(t)}}
                   = 0..(task[t].nx - 1)
          /\ (InFlight(t) /\ current_scan' # <<>>)
                => \A i \in 1..Len(Cur'.points) :
                      Cur'.points[i].purity_score # None
                          => Cur'.grid[IndexOf(Cur'.y_positions, Cur'.points[i].y)]
                                      [IndexOf(Cur'.x_positions, Cur'.points[i].x)]
                             = Cur'.points[i].purity_score]_vars

\* The k-th cell of the traversal of the axes xs, ys: row-major over Y,
\* odd rows in decreasing X when serpentine.
TraversalCell(xs, ys, serpentine, k) ==
    LET r == (k - 1) \div Len(xs)
        i == (k - 1) % Len(xs)
    IN <<IF serpentine /\ r % 2 = 1 THEN xs[Len(xs) - i] ELSE xs[i + 1], ys[r + 1]>>

\* C18: the cells a start_scan call visits are, in order, the first cells of
\* the row-major traversal of its grid: rows in increasing y index, odd rows
\* in decreasing X when the call's parameters say serpentine, every other row
\* in increasing X.
C18_TraversalOrder ==
    \A t \in Tasks :
        /\ Len(task[t].visited) <= Len(task[t].x_positions) * Len(task[t].y_positions)
        /\ \A k \in 1..Len(task[t].visited) :
              task[t].visited[k]
                  = TraversalCell(task[t].x_positions, task[t].y_positions,
                                  task[t].serpentine, k)

C18_Witness ==
    \E t \in Tasks :
        /\ task[t].serpentine
        /\ task[t].visited = <<<<0, 0>>, <<1, 0>>, <<1, 1>>, <<0, 1>>>>

\* C19: when the stage motion for a cell begins, every cell visited before it
\* has been counted in completed_points and has had its grid write: no point
\* of an earlier cell is still waiting in the batch buffer.
C19_CellDoneBeforeNextMove ==
    [][\A t \in Tasks :
          Visit(t)
              => /\ task[t].batch_points = <<>>
                 /\ Cur.completed_points >= Len(task[t].visited)]_vars

\* The traversal of the call of t ran through every row of its grid.
Exhausted(t) ==
    task[t].pc \in {"complete", "done"} /\ task[t].ny > 0 /\ task[t].yi >= task[t].ny

\* C20: the batch buffer never holds more than batch_size points, and it is
\* empty when the traversal has exhausted the grid.
C20_BufferFlushed ==
    \A t \in Tasks :
        /\ Len(task[t].batch_points) <= task[t].batch_size
        /\ Exhausted(t) => task[t].batch_points = <<>>

\* _execute_scan of the call of t has just returned (line 163) after running
\* through the whole grid, without a device or inference fault and without a
\* cancellation request made since the call began.
CleanRun(t) ==
    /\ task[t].pc = "complete"
    /\ Exhausted(t)
    /\ task[t].fails = <<>>
    /\ ~task[t].cancelled
    /\ ~cancel_requested

\* C21: in a scan without device or inference faults that runs to completion,
\* predict is called exactly once per grid cell (total_points calls in all),
\* whatever the batch size, and each call is made with the spectrum of the
\* point that receives its score.
C21_OnePredictPerCell ==
    \A t \in Tasks :
        CleanRun(t)
            => /\ Len(task[t].predicts) = Cur.total_points
               /\ Len(Cur.points) = Cur.total_points
               /\ \A i \in 1..Len(Cur.points) :
                     /\ i <= Len(task[t].predicts)
                     /\ task[t].predicts[i] = Cur.points[i].spectrum
                     /\ Cur.points[i].purity_score = Purity(task[t].predicts[i])

\* C22: a start_scan call that ends with a validation error changes nothing:
\* the orchestrator status stays IDLE, current_scan (None or the result of an
\* earlier scan) is left as it was, the two flags keep their values and
\* neither device is commanded.
C22_ValidationFailureNoChange ==
    [][\A t \in Tasks :
          (StartScanStep(t) /\ ret'[t].kind = "ValueError")
              => /\ status = IDLE
                 /\ UNCHANGED <<status, cancel_requested, pause_requested, current_scan,
                                stage, spectrometer>>]_vars

C22_Witness ==
    \E t \in Tasks :
        /\ ret[t].kind = "ValueError"
        /\ status = IDLE
        /\ cancel_requested
        /\ current_scan # <<>>
        /\ Len(Cur.points) > 0
        /\ \A u \in Tasks : ~InFlight(u)

\* C23: validation refuses a request exactly when its parameters break one
\* of the seven constraints (empty X range, empty Y range, a step that is not
\* positive, an integration time that is not positive, an overlap off 0..100,
\* an X corner off the stage's X travel, a Y corner off its Y travel).  The
\* seven constraints have seven different messages, the message raised is
\* that of a constraint the parameters break, and parameters that break none
\* pass; the ValueError a caller received carries one of the seven messages,
\* and the parameters of an accepted scan break no constraint.
C23_ValidationRejectsExactly ==
    LET lim == GetLimits
        broken(p) ==
           [c \in 1..7 |->
              CASE c = 1 -> p.x_start >= p.x_end
                [] c = 2 -> p.y_start >= p.y_end
                [] c = 3 -> p.step_x <= 0 \/ p.step_y <= 0
                [] c = 4 -> p.integration_time <= 0
                [] c = 5 -> p.overlap_percent < 0 \/ p.overlap_percent > 100
                [] c = 6 -> \/ p.x_start < lim.x[1] \/ p.x_start > lim.x[2]
                            \/ p.x_end < lim.x[1] \/ p.x_end > lim.x[2]
                [] c = 7 -> \/ p.y_start < lim.y[1] \/ p.y_start > lim.y[2]
                            \/ p.y_end < lim.y[1] \/ p.y_end > lim.y[2]]
        message ==
           <<"x_start must be less than x_end",
             "y_start must be less than y_end",
             "Step sizes must be positive",
             "Integration time must be positive",
             "Overlap percent must be between 0 and 100",
             "X range outside stage limits",
             "Y range outside stage limits">>
    IN /\ \A c, d \in 1..7 : message[c] = message[d] => c = d
       /\ \A p \in ValidationParameters :
             LET msg == ValidateScanParameters(p, lim)
             IN /\ (msg # NoError) <=> (\E c \in 1..7 : broken(p)[c])
                /\ msg # NoError => \E c \in 1..7 : broken(p)[c] /\ msg = message[c]
       /\ \A t \in Tasks :
             ret[t].kind = "ValueError" => \E c \in 1..7 : ret[t].msg = message[c]
       /\ current_scan # <<>> => \A c \in 1..7 : ~broken(Cur.parameters)[c]

\* A request was refused for its overlap after a scan had completed.
C23_Witness ==
    /\ ret["A"].kind = "ValueError"
    /\ ret["A"].msg = "Overlap percent must be between 0 and 100"
    /\ current_scan # <<>>
    /\ Cur.status = COMPLETED

\* _prepare_hardware of the call of t is about to raise: a device is not
\* connected or the spectrometer refuses the integration time.
PrepareFails(t) ==
    /\ task[t].pc = "prepare"
    /\ \/ ~stage.is_connected
       \/ ~spectrometer.is_connected
       \/ IntegrationTimeError(Cur.parameters.integration_time) # NoError

\* C24: an exception raised by the hardware preparation, or one that leaves
\* the traversal, aborts the scan through the error path: the call moves to no
\* cell afterwards, the result gets status ERROR, the text of the exception as
\* error_message and an end_time, the orchestrator status returns to IDLE and
\* the exception is raised to the caller of start_scan.
C24_ExceptionAbortsScan ==
    [][\A t \in Tasks :
          /\ PrepareFails(t)
                => /\ task'[t].pc = "error"
                   /\ task'[t].exc # NoError
                   /\ task'[t].visited = <<>>
                   /\ UNCHANGED spectrometer
          /\ task[t].pc = "error"
                => /\ task'[t].pc = "done"
                   /\ task'[t].visited = task[t].visited
                   /\ Cur'.status = ERROR
                   /\ Cur'.error_message = task[t].exc
                   /\ Cur'.end_time # None
                   /\ status' = IDLE
                   /\ ret'[t].kind = "raised"
                   /\ ret'[t].msg = task[t].exc
          /\ (task[t].pc = "done" /\ ret[t].kind = "raised" /\ task'[t].pc = "done")
                => task'[t].visited = task[t].visited]_vars

\* The spectrometer refused the integration time after the stage was homed.
C24_Witness ==
    \E t \in Tasks :
        /\ task[t].pc = "done"
        /\ ret[t].kind = "raised"
        /\ ret[t].msg = IntegrationTimeError(IntegrationTimeMax + 1)
        /\ Cur.status = ERROR
        /\ Cur.error_message = ret[t].msg
        /\ status = IDLE
        /\ task[t].visited = <<>>

\* An IndexError left the traversal after the call had moved to cells.
C24_WitnessTraversal ==
    \E t \in Tasks :
        /\ task[t].pc = "done"
        /\ ret[t].kind = "raised"
        /\ ret[t].msg = IndexErrorMsg
        /\ Cur.status = ERROR
        /\ Len(task[t].visited) > 0

\* C25: when a call moves the stage to a cell, the stage is homed and the
\* spectrometer's integration time is the one of the scan parameters; and a
\* preparation that finds the stage or the spectrometer not connected fails
\* without having homed the stage or configured the spectrometer.
C25_PrepareBeforeTraversal ==
    [][\A t \in Tasks :
          /\ Visit(t)
                => /\ stage.is_homed
                   /\ spectrometer.integration_time = Cur.parameters.integration_time
          /\ (task[t].pc = "prepare" /\ (~stage.is_connected \/ ~spectrometer.is_connected))
                => /\ task'[t].pc = "error"
                   /\ UNCHANGED <<stage, spectrometer>>]_vars

\* C26: when the traversal of a call has run through the whole grid and no
\* cancellation request was made since the call began, the call returns the
\* result with status COMPLETED, an end_time and completed_points equal to
\* total_points, and the orchestrator status is IDLE, so that the next
\* start_scan passes the status check.
C26_NormalCompletion ==
    [][\A t \in Tasks :
          (task[t].pc = "complete" /\ Exhausted(t) /\ ~task[t].cancelled /\ ~cancel_requested)
              => /\ task'[t].pc = "done"
                 /\ ret'[t].kind = "returned"
                 /\ ret'[t].status = COMPLETED
                 /\ Cur'.status = COMPLETED
                 /\ Cur'.end_time # None
                 /\ Cur'.completed_points = Cur'.total_points
                 /\ status' = IDLE
                 /\ CanStart(status')]_vars

\* C27: pause_scan acts only in status RUNNING, where it sets the pause flag
\* and the status PAUSED; resume_scan acts only in status PAUSED, where it
\* clears the pause flag and sets the status RUNNING.  In any other status
\* either call leaves the status, the two flags and the current result as
\* they are; neither ever touches the cancel flag or the result.
C27_PauseResumeGuarded ==
    [][/\ PauseScan =>
             /\ IF status = RUNNING
                THEN status' = PAUSED /\ pause_requested' = TRUE
                ELSE UNCHANGED <<status, pause_requested>>
             /\ UNCHANGED <<cancel_requested, current_scan>>
       /\ ResumeScan =>
             /\ IF status = PAUSED
                THEN status' = RUNNING /\ pause_requested' = FALSE
                ELSE UNCHANGED <<status, pause_requested>>
             /\ UNCHANGED <<cancel_requested, current_scan>>
       /\ (status' = PAUSED /\ status # PAUSED) => status = RUNNING /\ pause_requested'
       /\ (status = PAUSED /\ status' = RUNNING) => ~pause_requested']_vars

\* A traversal waits at the head of a row after pause_scan was accepted.
C27_Witness ==
    /\ status = PAUSED
    /\ pause_requested
    /\ ~cancel_requested
    /\ \E t \in Tasks : task[t].pc = "pausewait" /\ Len(task[t].visited) > 0

\* The call of t waits in the pause wait and the condition of the wait holds
\* (line 259).
PauseBlocked(t) ==
    task[t].pc = "pausewait" /\ pause_requested /\ ~cancel_requested

\* C28: every start_scan call that was accepted ends: when each pause is
\* followed by a resume or a cancel, the call returns or raises, and the
\* orchestrator status is IDLE when it does.
C28_ScanTerminates ==
    \A t \in Tasks : InFlight(t) ~> (task[t].pc = "done" /\ status = IDLE)

\* C28, the case of the pause wait: a call that waits there finds the
\* orchestrator PAUSED, the status in which resume_scan and cancel_scan act.
C28_PauseWaitReleasable ==
    \A t \in Tasks : PauseBlocked(t) => status = PAUSED

\* C29: the throttling rule passes a result to the progress callbacks at most
\* 20 times during the traversal, whatever its total_points.
C29_AtMostTwentyNotifications ==
    current_scan # <<>> => Cur.notified <= 20

Notification ==
    /\ current_scan # <<>>
    /\ scans' = scans
    /\ \/ Cur'.notified # Cur.notified
       \/ \E t \in Tasks : task[t].pc \in {"complete", "error"} /\ task'[t].pc = "done"

\* The exception of a callback stays inside _notify_progress: the counted cell
\* is counted once and the loop goes on, the finished call ends the way it
\* would have ended without callbacks.
CallbackErrorContained ==
    /\ Cur'.notified # Cur.notified =>
          /\ Cur'.completed_points = Cur.completed_points + 1
          /\ Cur'.status = Cur.status
          /\ status' = status
          /\ \A t \in Tasks : task'[t].pc \notin {"except", "error"}
    /\ \A t \in Tasks :
          /\ (task[t].pc = "complete" /\ task'[t].pc = "done") =>
                /\ ret'[t].kind = "returned"
                /\ Cur'.status = COMPLETED
                /\ Cur'.completed_points = Cur.completed_points
          /\ (task[t].pc = "error" /\ task'[t].pc = "done") =>
                /\ ret'[t] = [kind |-> "raised", msg |-> task[t].exc, status |-> ERROR]
                /\ Cur'.status = ERROR
                /\ Cur'.completed_points = Cur.completed_points

\* C31: observer isolation.  A notification calls every registered callback,
\* those registered after one that raises included; the exception changes
\* neither the scan's status nor its counters and does not reach the scan
\* loop; and once remove_progress_callback(c) has returned, c is no longer in
\* the list that later notifications call.
C31_ObserverIsolation ==
    [][/\ Notification =>
             /\ calls' = progress_callbacks
             /\ CallbackErrorContained
       /\ \A c \in Callbacks :
             RemoveProgressCallback(c) =>
                \A i \in 1..Len(progress_callbacks') : progress_callbacks'[i] # c]_vars

\* C31: only the removal part, for a callback registered once.
C31_RemovedOnceRegistered ==
    [][\A c \in Callbacks :
          (/\ RemoveProgressCallback(c)
           /\ Cardinality({i \in 1..Len(progress_callbacks) : progress_callbacks[i] = c}) <= 1)
          => \A i \in 1..Len(progress_callbacks') : progress_callbacks'[i] # c]_vars

\* C31: a notification calls every registered callback, and the exception of
\* one of them stays inside _notify_progress.
C31_EveryCallbackCalled ==
    [][Notification => (calls' = progress_callbacks /\ CallbackErrorContained)]_vars

\* A notification has called g, which raised, and then f.
C31_Witness ==
    /\ calls = <<"g", "f">>
    /\ current_scan # <<>>
    /\ Cur.notified > 0

\* ceil((end - start) / step + 1) for whole numbers with end >= start, step > 0.
CeilCount(start, end, step) == ((end - start + step - 1) \div step) + 1

\* The number of values start, start + step, ... that do not exceed end.
InclusiveCount(start, end, step) ==
    Cardinality({k \in 0..(end - start) : start + k * step <= end})

C33_StatusIsPureRead ==
    [][report' # report =>
          /\ UNCHANGED <<status, cancel_requested, pause_requested, current_scan, stage,
                         spectrometer, task, running, ret, budget, scans,
                         progress_callbacks, calls>>
          /\ report'.status = status
          /\ IF current_scan = <<>>
             THEN DOMAIN report' = {"status"}
             ELSE /\ report'.completed_points = Cur.completed_points
                  /\ report'.total_points = Cur.total_points
                  /\ report'.progress[1] * Cur.total_points
                        = Cur.completed_points * report'.progress[2]
                  /\ report'.progress[2] > 0]_vars

\* The status was read in the middle of a scan, with a flag set, and reports
\* one of two points done.
C33_Witness ==
    /\ report.status = PAUSED
    /\ pause_requested
    /\ DOMAIN report # {"status"}
    /\ report.progress = <<1, 2>>
    /\ current_scan # <<>>
    /\ Cur.completed_points = 1

\* The scan of the current result has finished: no call is in flight and the
\* result carries a terminal status.
ScanFinished ==
    /\ current_scan # <<>>
    /\ \A t \in Tasks : ~InFlight(t)
    /\ Cur.status \in Terminal

\* C34: a client that keeps polling after the scan has finished eventually
\* reads a terminal value (completed, error or cancelled) in the status field
\* of the report.
C34_PollSeesTerminal == ScanFinished ~> (report.status \in Terminal)

\* C34: the status field of a report is never one of the terminal values.
C34_ReportStatusNeverTerminal == report.status \notin Terminal

\* The point carries a score / carries an error.
Scored(p) == p.purity_score # None
Failed(p) == p.error # NoError

\* C35: every point of result.points has a score or an error and never both; a
\* point with an error has neither purity_score nor confidence.
C35_ScoreXorError ==
    current_scan # <<>> =>
        \A i \in 1..Len(Cur.points) :
            LET p == Cur.points[i]
            IN /\ Scored(p) # Failed(p)
               /\ Failed(p) => (p.purity_score = None /\ p.confidence = None)
               /\ Scored(p) => p.confidence # None

\* The result holds a scored point, a point of a failed cell and a point of a
\* failed batch.
C35_Witness ==
    /\ current_scan # <<>>
    /\ \E i, j, k \in 1..Len(Cur.points) :
          /\ Scored(Cur.points[i])
          /\ Failed(Cur.points[j]) /\ Cur.points[j].spectrum = <<>>
          /\ Failed(Cur.points[k]) /\ Cur.points[k].spectrum # <<>>

\* move_abs(x, y) is allowed in stage state st.
MoveAllowed(st, x_mm, y_mm) ==
    /\ st.is_connected /\ st.is_homed /\ ~st.emergency_stop
    /\ 0 <= x_mm /\ x_mm <= GetLimits.x[2]
    /\ 0 <= y_mm /\ y_mm <= GetLimits.y[2]

\* C36: move_abs(x, y) returns with the position at (x, y) exactly when the
\* stage is connected, homed, not emergency-stopped and the target is within
\* [0, x_max] x [0, y_max]; otherwise it raises and the position stays.  stop()
\* sets the emergency stop, which only reset_emergency_stop() clears, and the
\* reset leaves connection, homing and position as they were, so that moves
\* fail after stop() and succeed again after the reset.
C36_MoveAbsContract ==
    [][/\ \A x_mm \in MoveTargets, y_mm \in MoveTargets :
             StageMoveAbs(x_mm, y_mm) =>
                IF MoveAllowed(stage, x_mm, y_mm)
                THEN /\ ret'["A"].kind = "returned"
                     /\ stage' = [stage EXCEPT !.x = x_mm, !.y = y_mm]
                ELSE /\ ret'["A"].kind = "raised"
                     /\ stage' = stage
       /\ StageStop => stage' = [stage EXCEPT !.emergency_stop = TRUE]
       /\ StageResetEmergencyStop => stage' = [stage EXCEPT !.emergency_stop = FALSE]
       /\ (stage.emergency_stop /\ ~stage'.emergency_stop) => StageResetEmergencyStop]_vars

\* C36: while the emergency stop is set no move_abs changes the position;
\* only home() does, which does not test the emergency stop.
C36_NoMoveWhileStopped ==
    [][stage.emergency_stop => (stage'.x = stage.x /\ stage'.y = stage.y)
                               \/ (stage'.x = 0 /\ stage'.y = 0 /\ stage'.is_homed)]_vars

\* A move was refused because of the emergency stop, on a stage that is
\* connected and homed and away from home.
C36_Witness ==
    /\ ret["A"] = [kind |-> "raised", msg |-> "Emergency stop active", status |-> IDLE]
    /\ stage.emergency_stop /\ stage.is_connected /\ stage.is_homed
    /\ stage.x = StageXMax /\ stage.y = 1

\* The messages of the ValueError move_abs raises for a target off the travel.
OutOfBounds == {"X position outside bounds", "Y position outside bounds"}

\* C37: a scan that passed validation never commands the stage outside its
\* travel: every (x, y) its call has passed to move_abs lies within the corners
\* of the scan and within the limits get_limits() reports, and no cell of it
\* fails with an out-of-bounds motion error.
C37_MovesWithinLimits ==
    (current_scan # <<>> /\ task["A"].pc # "idle") =>
        LET p == Cur.parameters
        IN /\ \A k \in 1..Len(task["A"].visited) :
                 LET x == task["A"].visited[k][1]
                     y == task["A"].visited[k][2]
                 IN /\ p.x_start <= x /\ x <= p.x_end
                    /\ p.y_start <= y /\ y <= p.y_end
                    /\ GetLimits.x[1] <= x /\ x <= GetLimits.x[2]
                    /\ GetLimits.y[1] <= y /\ y <= GetLimits.y[2]
           /\ task["A"].exc \notin OutOfBounds
           /\ \A i \in 1..Len(Cur.points) : Cur.points[i].error \notin OutOfBounds

\* A validated scan has moved the stage to the far corner of its range, which
\* is the far corner of the stage travel.
C37_Witness ==
    /\ current_scan # <<>>
    /\ Cur.parameters.x_end = GetLimits.x[2]
    /\ Cur.parameters.y_end = 1
    /\ stage.x = GetLimits.x[2] /\ stage.y = 1
    /\ task["A"].pc = "settle"

\* The points of the current result at the coordinates of grid cell (r, c).
PointsAt(r, c) ==
    {i \in 1..Len(Cur.points) : /\ Cur.points[i].x = Cur.x_positions[c + 1]
                                /\ Cur.points[i].y = Cur.y_positions[r + 1]}

\* C38: the grid and the point list agree.  A grid cell holds a value other
\* than the missing sentinel only if points holds a point at the cell's
\* coordinates with that value as purity_score and without error; the cells
\* of failed positions and of positions without a point hold the sentinel.
C38_GridAgreesWithPoints ==
    current_scan # <<>> =>
        \A r \in DOMAIN Cur.grid : \A c \in DOMAIN Cur.grid[r] :
            /\ Cur.grid[r][c] # NaN =>
                  \E i \in PointsAt(r, c) : /\ Cur.points[i].purity_score = Cur.grid[r][c]
                                            /\ ~Failed(Cur.points[i])
            /\ (\E i \in PointsAt(r, c) : Failed(Cur.points[i])) => Cur.grid[r][c] = NaN
            /\ PointsAt(r, c) = {} => Cur.grid[r][c] = NaN

\* The result holds a scored cell, a failed cell and a cell without a point.
C38_Witness ==
    /\ current_scan # <<>>
    /\ \E r1, r2, r3 \in DOMAIN Cur.grid :
          \E c1 \in DOMAIN Cur.grid[r1], c2 \in DOMAIN Cur.grid[r2], c3 \in DOMAIN Cur.grid[r3] :
              /\ Cur.grid[r1][c1] # NaN
              /\ \E i \in PointsAt(r2, c2) : Failed(Cur.points[i])
              /\ PointsAt(r3, c3) = {}

\* C39: the orchestrator status and the status of the current result agree.
\* While the orchestrator is RUNNING or PAUSED the current result is RUNNING;
\* while it is IDLE and a current result exists, that result is COMPLETED,
\* ERROR or CANCELLED and has its end_time.
C39_StatusConsistent ==
    /\ status \in {RUNNING, PAUSED} => (current_scan # <<>> /\ Cur.status = RUNNING)
    /\ (status = IDLE /\ current_scan # <<>>) =>
           (Cur.status \in Terminal /\ Cur.end_time # None)

\* The orchestrator is idle again after a cancel_scan while the cancelled call
\* is still in flight.
C39_Witness ==
    /\ status = IDLE
    /\ current_scan # <<>>
    /\ Cur.status = CANCELLED
    /\ Cur.end_time # None
    /\ \E t \in Tasks : InFlight(t) /\ task[t].cancelled

====
